---- MODULE Spec2Model ----
(***************************************************************************)
(* Branching operator of the RouteOpt CVRP branch-and-price solver:        *)
(* imposeBranching (2-way, fractional and enumeration state),              *)
(* imposeThreeBranching (3-way with depth fallback), the BbNode clone      *)
(* constructors and arc deletion on the bucket graph.                      *)
(***************************************************************************)
EXTENDS Integers, Sequences, FiniteSets, TLC

VARIABLES
    heap,               \* live BbNode objects, keyed by object identity
    children,           \* the caller's std::vector<BbNode *> children
    node_idx_counter,   \* process-wide node index counter
    three_way_count,    \* static thread_local counter of imposeThreeBranching
    IF_SYMMETRY_PROHIBIT, \* build-time switch (asymmetric instances)
    aborted,            \* the process ended in std::terminate / a crash
    last,               \* record of the last branching call (history)
    splits_on_path,     \* per object: 3-way splits on its root-to-node path (history)
    candidate_map,      \* the candidate values handed to candidate selection
    chosen,             \* record of the last candidate selection call (history)
    outcome,            \* how the search ended, "searching" before
    exit_code           \* << >> while the process runs, then <<its exit code>>

vars == <<heap, children, node_idx_counter, three_way_count,
          IF_SYMMETRY_PROHIBIT, aborted, last, splits_on_path,
          candidate_map, chosen, outcome, exit_code>>

\* the state of candidate selection and of main()
sel_vars == <<candidate_map, chosen, outcome, exit_code>>

\* the state of the branching operator
br_vars == <<heap, children, node_idx_counter, three_way_count,
             IF_SYMMETRY_PROHIBIT, aborted, last, splits_on_path>>

-----------------------------------------------------------------------------
(* Bounds of the model *)

MaxNodes == 5     \* BbNode objects alive at the same time
MaxBrcs == 3      \* branch constraints on one root-to-node path
NumBuckets == 2   \* num_buckets_per_vertex
MaxThreeWayCalls == 11  \* calls of imposeThreeBranching that create nodes
MaxSiblings == 2  \* nodes alive when a 2-way call starts
EarlyRounds == 0  \* 3-way rounds that 2-way calls interleave with (see Interleaved)
MaxErrorBrcs == 0 \* solver errors are raised in calls on nodes with at most this many brcs
MaxDeleteRounds == 1 \* pairs of arc deletions applied to one bucket graph

(* Program constants *)

MAX_3WAY_ROUNDS == 10
INVALID_BRC_INDEX == -1
SOL_X_TOLERANCE == 1  \* in tenths, the unit of the LP values of the candidate maps

-----------------------------------------------------------------------------
(* The instance: columns of the root LP.  Column 0 is the dummy column.  *)

DummyCol == <<1, 2, 3>>
RootCols == << DummyCol, <<1, 2>>, <<3>>, <<1, 3>>, <<2, 3, 1>>, <<1, 2, 1>> >>
Dim == Len(DummyCol) + 1
Vertices == 0 .. (Dim - 1)
Customers == 1 .. (Dim - 1)
Bins == 1 .. NumBuckets

Edges == { <<1, 2>>, <<2, 3>>, <<1, 3>> }

\* candidate edge pairs of the 3-way branch, the smaller edge first
EdgePairs ==
    { p \in Edges \X Edges :
        \/ p[1][1] < p[2][1]
        \/ (p[1][1] = p[2][1] /\ p[1][2] < p[2][2]) }

NoBuckets == << >>

-----------------------------------------------------------------------------
(* Sequence helpers *)
\* the elements of a sequence
Range(f) == { f[k] : k \in DOMAIN f }

IndexSeq(n) == [k \in 1 .. n |-> k - 1]

InSeq(x, s) == \E k \in 1 .. Len(s) : s[k] = x

FirstPos(s, x) == CHOOSE k \in 1 .. Len(s) : s[k] = x /\ \A m \in 1 .. (k - 1) : s[m] # x

RemoveAt(s, k) == [m \in 1 .. (Len(s) - 1) |-> IF m < k THEN s[m] ELSE s[m + 1]]

\* the elements of s whose 0-based position is not listed in ind
DropIndices(s, ind) ==
    LET keep == { k \in 1 .. Len(s) : ~ InSeq(k - 1, ind) }
        F[k \in 0 .. Len(s)] ==
            IF k = 0 THEN << >>
            ELSE IF k \in keep THEN Append(F[k - 1], s[k]) ELSE F[k - 1]
    IN  F[Len(s)]

-----------------------------------------------------------------------------
(* Column coefficients *)

Path(col_seq) == <<0>> \o col_seq \o <<0>>

\* number of times the route traverses the edge
EdgeCount(col_seq, edge, if_symmetry) ==
    LET p == Path(col_seq)
    IN  Cardinality({ k \in 1 .. (Len(p) - 1) :
            \/ (p[k] = edge[1] /\ p[k + 1] = edge[2])
            \/ (if_symmetry /\ p[k] = edge[2] /\ p[k + 1] = edge[1]) })

Visits(col_seq, v) == v # 0 /\ InSeq(v, col_seq)

\* BbNode::obtainBrcCoefficient: the columns using the edge and their counts
obtainBrcCoefficient(cols, edge, if_symmetry) ==
    LET Uses(c) == EdgeCount(cols[c + 1], edge, if_symmetry) > 0
        ind == SelectSeq(IndexSeq(Len(cols)), Uses)
    IN  [ind |-> ind,
         val |-> [k \in 1 .. Len(ind) |-> EdgeCount(cols[ind[k] + 1], edge, if_symmetry)]]

\* BbNode::obtainColIdxNotAllowByEdge: columns visiting an endpoint of the
\* edge without traversing it
obtainColIdxNotAllowByEdge(cols, edge, if_symmetry) ==
    LET Bad(c) == /\ (Visits(cols[c + 1], edge[1]) \/ Visits(cols[c + 1], edge[2]))
                  /\ EdgeCount(cols[c + 1], edge, if_symmetry) = 0
    IN  SelectSeq(IndexSeq(Len(cols)), Bad)

\* dense coefficient vector of a sparse (ind, val) row over ncols columns
Dense(ind, val, ncols) ==
    [c \in 1 .. ncols |->
        IF InSeq(c - 1, ind) THEN val[FirstPos(ind, c - 1)] ELSE 0]

-----------------------------------------------------------------------------
(* The LP solver model of a node: rows over the node's columns *)

Row(coef, sense, rhs) == [coef |-> coef, sense |-> sense, rhs |-> rhs]

\* partitioning rows, one per customer
BaseRows(cols) ==
    [r \in 1 .. (Dim - 1) |->
        Row([c \in 1 .. Len(cols) |->
                Cardinality({ k \in 1 .. Len(cols[c]) : cols[c][k] = r })], "=", 1)]

\* the rounded capacity cuts active at the root, and their rows
RootRccs == << {1, 2} >>
CutRows(cols, rccs) ==
    [r \in 1 .. Len(rccs) |->
        Row([c \in 1 .. Len(cols) |->
                Cardinality({ k \in 1 .. (Len(cols[c]) - 1) :
                    cols[c][k] \in rccs[r] /\ cols[c][k + 1] \in rccs[r] })], "<", 1)]

NumBaseRows == Dim - 1

\* Solver::getNumRow
getNumRow(node) == Len(node.rows)

\* Solver::getNumCol
getNumCol(node) == Len(node.cols)

\* TestingDetail::addBranchConstraint: one equality row, rhs 1 on the true
\* side and 0 on the false side
addBranchConstraint(node, cind, cval, dir) ==
    [node EXCEPT !.rows =
        Append(@, Row(Dense(cind, cval, Len(node.cols)), "=", IF dir THEN 1 ELSE 0))]

\* BbNode::rmLPCols: the listed columns leave cols and every LP row
rmLPCols(node, ind) ==
    [node EXCEPT !.cols = DropIndices(@, ind),
                 !.rows = [r \in 1 .. Len(@) |->
                              [@[r] EXCEPT !.coef = DropIndices(@, ind)]]]

-----------------------------------------------------------------------------
(* Arc bucket graph *)

Bucket(arcs, jumps) == [bucket_arcs |-> arcs, jump_arcs |-> jumps]

Others(v) == SelectSeq(IndexSeq(Dim), LAMBDA u : u # v)

\* the bucket graph of the root: odd bins hold bucket arcs to every other
\* vertex, even bins hold jump arcs; bin 1 of vertex 1 lists head 2 in both
\* of its arc lists
RootGraph ==
    [v \in Vertices |->
        [bin \in Bins |->
            IF bin % 2 = 1
            THEN Bucket(Others(v),
                        IF v = 1 /\ bin = 1 THEN << <<1, 2>> >> ELSE << >>)
            ELSE Bucket(<< >>, [k \in 1 .. (Dim - 1) |-> <<bin, Others(v)[k]>>])]]

HasHead(bucket, j) ==
    \/ InSeq(j, bucket.bucket_arcs)
    \/ \E k \in 1 .. Len(bucket.jump_arcs) : bucket.jump_arcs[k][2] = j

\* faulty variant of DeleteHead: the front of the list is erased instead of
\* the element found
DeleteHeadFront(bucket, j) ==
    IF InSeq(j, bucket.bucket_arcs)
    THEN [bucket EXCEPT !.bucket_arcs = Tail(@)]
    ELSE IF \E k \in 1 .. Len(bucket.jump_arcs) : bucket.jump_arcs[k][2] = j
         THEN [bucket EXCEPT !.jump_arcs = Tail(@)]
         ELSE bucket

\* one pass of deleteArcByFalseBranchConstraint over the bins of vertex i
DeleteHead(bucket, j) ==
    IF InSeq(j, bucket.bucket_arcs)
    THEN [bucket EXCEPT !.bucket_arcs = RemoveAt(@, FirstPos(@, j))]
    ELSE IF \E k \in 1 .. Len(bucket.jump_arcs) : bucket.jump_arcs[k][2] = j
         THEN [bucket EXCEPT !.jump_arcs =
                  RemoveAt(@, CHOOSE k \in 1 .. Len(@) :
                                  /\ @[k][2] = j
                                  /\ \A m \in 1 .. (k - 1) : @[m][2] # j)]
         ELSE bucket

DeleteArcsOf(buckets, i, j) ==
    [buckets EXCEPT ![i] = [bin \in Bins |-> DeleteHead(buckets[i][bin], j)]]

\* faulty variant of deleteArcByFalseBranchConstraint: the second pass with
\* i and j swapped is missing
deleteArcOneWay(buckets, edge) == DeleteArcsOf(buckets, edge[1], edge[2])

deleteArcByFalseBranchConstraint(buckets, edge) ==
    DeleteArcsOf(DeleteArcsOf(buckets, edge[1], edge[2]), edge[2], edge[1])

-----------------------------------------------------------------------------
(* Branch constraints and nodes *)

Brc(edge, idx_brc, br_dir) == [edge |-> edge, idx_brc |-> idx_brc, br_dir |-> br_dir]

\* the shared enumeration column pool and the pool indices of an
\* enumeration-state root
EnumPool == << <<1, 2>>, <<2, 3>>, <<3, 1>> >>
RootPoolIndices == { << >>, <<0, 1, 2>> }
PoolCost == <<4, 5, 6>>

RootNode(enu, pool_idx, if_symmetry) ==
    [idx |-> 0,
     if_root_node |-> TRUE,
     if_terminate |-> FALSE,
     if_in_enu_state |-> enu,
     brcs |-> << >>,
     cols |-> RootCols,
     rows |-> BaseRows(RootCols) \o CutRows(RootCols, RootRccs),
     rccs |-> RootRccs,
     r1cs |-> << >>,
     value |-> 10,
     last_gap |-> 2,
     all_forward_buckets |-> IF enu THEN NoBuckets ELSE RootGraph,
     all_backward_buckets |-> IF enu \/ if_symmetry THEN NoBuckets ELSE RootGraph,
     index_columns_in_enumeration_column_pool |-> IF enu THEN pool_idx ELSE << >>,
     cost_for_columns_in_enumeration_column_pool |->
         IF enu THEN [k \in 1 .. Len(pool_idx) |-> PoolCost[pool_idx[k] + 1]] ELSE << >>,
     deleted_columns_in_enumeration_pool |->
         IF enu THEN [k \in 1 .. Len(pool_idx) |-> FALSE] ELSE << >>]

\* faulty variant of CloneNode: the bucket arrays are shared with the parent,
\* so the arc deletion of the false branch shows in the clone
CloneNodeShared(node, if_symmetry, bf, new_idx) ==
    [idx |-> new_idx,
     if_root_node |-> FALSE,
     if_terminate |-> FALSE,
     if_in_enu_state |-> FALSE,
     brcs |-> Append(node.brcs, bf),
     cols |-> node.cols,
     rows |-> node.rows,
     rccs |-> node.rccs,
     r1cs |-> node.r1cs,
     value |-> node.value,
     last_gap |-> node.last_gap,
     all_forward_buckets |->
         deleteArcByFalseBranchConstraint(node.all_forward_buckets, bf.edge),
     all_backward_buckets |-> IF if_symmetry THEN NoBuckets ELSE node.all_backward_buckets,
     index_columns_in_enumeration_column_pool |-> << >>,
     cost_for_columns_in_enumeration_column_pool |-> << >>,
     deleted_columns_in_enumeration_pool |-> << >>]

\* BbNode::BbNode(BbNode *node, bool if_symmetry, int num_buckets_per_vertex,
\*                const Brc &bf): the fields of the new node
CloneNode(node, if_symmetry, bf, new_idx) ==
    [idx |-> new_idx,
     if_root_node |-> FALSE,
     if_terminate |-> FALSE,
     if_in_enu_state |-> FALSE,
     brcs |-> Append(node.brcs, bf),
     cols |-> node.cols,
     rows |-> node.rows,
     rccs |-> node.rccs,
     r1cs |-> node.r1cs,
     value |-> node.value,
     last_gap |-> node.last_gap,
     all_forward_buckets |-> node.all_forward_buckets,
     all_backward_buckets |-> IF if_symmetry THEN NoBuckets ELSE node.all_backward_buckets,
     index_columns_in_enumeration_column_pool |-> << >>,
     cost_for_columns_in_enumeration_column_pool |-> << >>,
     deleted_columns_in_enumeration_pool |-> << >>]

\* the constructor ends the process when the parent has no buckets to copy
CloneTerminates(node, if_symmetry) ==
    \/ node.all_forward_buckets = NoBuckets
    \/ (~ if_symmetry /\ node.all_backward_buckets = NoBuckets)

\* faulty variant of CloneNodeInEnu: value and last_gap are left at their
\* defaults
CloneNodeInEnuFresh(node, bf, new_idx) ==
    [idx |-> new_idx,
     if_root_node |-> FALSE,
     if_terminate |-> FALSE,
     if_in_enu_state |-> TRUE,
     brcs |-> Append(node.brcs, bf),
     cols |-> node.cols,
     rows |-> node.rows,
     rccs |-> node.rccs,
     r1cs |-> node.r1cs,
     value |-> 0,
     last_gap |-> 0,
     all_forward_buckets |-> NoBuckets,
     all_backward_buckets |-> NoBuckets,
     index_columns_in_enumeration_column_pool |->
         node.index_columns_in_enumeration_column_pool,
     cost_for_columns_in_enumeration_column_pool |->
         node.cost_for_columns_in_enumeration_column_pool,
     deleted_columns_in_enumeration_pool |->
         SubSeq(node.deleted_columns_in_enumeration_pool, 1,
                Len(node.index_columns_in_enumeration_column_pool))]

\* BbNode::BbNode(BbNode *node, const Brc &bf): the enumeration-state clone
CloneNodeInEnu(node, bf, new_idx) ==
    [idx |-> new_idx,
     if_root_node |-> FALSE,
     if_terminate |-> FALSE,
     if_in_enu_state |-> TRUE,
     brcs |-> Append(node.brcs, bf),
     cols |-> node.cols,
     rows |-> node.rows,
     rccs |-> node.rccs,
     r1cs |-> node.r1cs,
     value |-> node.value,
     last_gap |-> node.last_gap,
     all_forward_buckets |-> NoBuckets,
     all_backward_buckets |-> NoBuckets,
     index_columns_in_enumeration_column_pool |->
         node.index_columns_in_enumeration_column_pool,
     cost_for_columns_in_enumeration_column_pool |->
         node.cost_for_columns_in_enumeration_column_pool,
     deleted_columns_in_enumeration_pool |->
         SubSeq(node.deleted_columns_in_enumeration_pool, 1,
                Len(node.index_columns_in_enumeration_column_pool))]

-----------------------------------------------------------------------------
(* 2-way branching on a node that is not in enumeration state *)

\* "if (solver_ind.front() == 0) solver_ind.erase(solver_ind.begin())"
\* on a non-empty index list
StripDummy(ind) == IF Head(ind) = 0 THEN Tail(ind) ELSE ind

\* faulty variant of TrueBrc: the row index is not recorded
TrueBrcNoRow(node, info) == Brc(info, INVALID_BRC_INDEX, TRUE)

\* the Brc of the true branch: the row index is the parent's row count
TrueBrc(node, info) == Brc(info, getNumRow(node), TRUE)

\* faulty variant of FalseBrc: the direction is recorded as true
FalseBrcForce(info) == Brc(info, INVALID_BRC_INDEX, TRUE)

\* the Brc of the false branch: no solver row
FalseBrc(info) == Brc(info, INVALID_BRC_INDEX, FALSE)

\* faulty variant of TrueChildUnsolved: the branch row is not installed
TrueChildNoRow(node, info, if_symmetry, new_idx) ==
    CloneNode(node, if_symmetry, TrueBrc(node, info), new_idx)

\* the true child of addBranchCutToUnsolved: a clone with the branch row
TrueChildUnsolved(node, info, if_symmetry, new_idx) ==
    LET coef == obtainBrcCoefficient(node.cols, info, if_symmetry)
        node2 == CloneNode(node, if_symmetry, TrueBrc(node, info), new_idx)
    IN  addBranchConstraint(node2, coef.ind, coef.val, TRUE)

\* faulty variant of FalseRemoved: a leading index 0 is not stripped
FalseRemovedWithDummy(node, info, if_symmetry) ==
    obtainBrcCoefficient(node.cols, info, if_symmetry).ind

\* the index list addBranchCutToUnsolved hands to rmLPCols
FalseRemoved(node, info, if_symmetry) ==
    StripDummy(obtainBrcCoefficient(node.cols, info, if_symmetry).ind)

\* the arc deletion of the false branch
FalseBuckets(node, info, if_symmetry) ==
    [node EXCEPT
        !.all_forward_buckets = deleteArcByFalseBranchConstraint(@, info),
        !.all_backward_buckets =
            IF ~ if_symmetry THEN deleteArcByFalseBranchConstraint(@, info) ELSE @]

\* the false child of addBranchCutToUnsolved: the node itself, in place
FalseChildUnsolved(node, info, if_symmetry, new_idx) ==
    LET n1 == [node EXCEPT !.if_root_node = FALSE,
                           !.brcs = Append(@, FalseBrc(info))]
        n2 == rmLPCols(n1, FalseRemoved(node, info, if_symmetry))
        n3 == FalseBuckets(n2, info, if_symmetry)
    IN  [n3 EXCEPT !.idx = new_idx]

-----------------------------------------------------------------------------
(* 2-way branching on a node in enumeration state *)

\* outcomes of "ind_not_allow.front() == 0" followed by erase(begin()) on an
\* EMPTY vector (undefined behaviour): the process crashes, the read yields a
\* non-zero value and the list stays empty, or the erase leaves a corrupted
\* list
UBOutcomes == { "crash", "keep", "corrupt" }

\* faulty variant of NotAllowRemoved: the true child loses the columns that
\* use the edge
NotAllowRemovedUse(node, info, if_symmetry, ub) ==
    FalseRemoved(node, info, if_symmetry)

\* the index list handed to rmLPCols for the true child
NotAllowRemoved(node, info, if_symmetry, ub) ==
    LET raw == obtainColIdxNotAllowByEdge(node.cols, info, if_symmetry)
    IN  IF raw # << >> THEN StripDummy(raw)
        ELSE IF ub = "corrupt" THEN <<0>> ELSE << >>

\* BbNode::rmColByBranchInEnuMatrix: pool columns violating the Brc are
\* marked in the deleted-mask
rmColByBranchInEnuMatrix(deleted, pool_idx, bf, if_symmetry) ==
    [k \in 1 .. Len(deleted) |->
        \/ deleted[k]
        \/ LET col == EnumPool[pool_idx[k] + 1]
               cnt == EdgeCount(col, bf.edge, if_symmetry)
           IN  IF bf.br_dir
               THEN cnt = 0 /\ (Visits(col, bf.edge[1]) \/ Visits(col, bf.edge[2]))
               ELSE cnt > 0]

\* "std::vector<double> duals(num_row, -1)"
EnuDuals(node) == [r \in 1 .. getNumRow(node) |-> -1]

EnuBrc(info, br_dir) == Brc(info, INVALID_BRC_INDEX, br_dir)

\* the true child of addBranchCutToUnsolvedInEnu
TrueChildInEnu(node, info, if_symmetry, new_idx, ub) ==
    LET bf == EnuBrc(info, TRUE)
        node2 == rmLPCols(CloneNodeInEnu(node, bf, new_idx),
                          NotAllowRemoved(node, info, if_symmetry, ub))
    IN  IF Len(node.index_columns_in_enumeration_column_pool) # 0
        THEN [node2 EXCEPT !.deleted_columns_in_enumeration_pool =
                 rmColByBranchInEnuMatrix(@, node.index_columns_in_enumeration_column_pool,
                                          bf, if_symmetry)]
        ELSE node2

\* the false child of addBranchCutToUnsolvedInEnu: the node itself, in place
FalseChildInEnu(node, info, if_symmetry, new_idx) ==
    LET bf == EnuBrc(info, FALSE)
        n1 == [node EXCEPT !.if_root_node = FALSE, !.brcs = Append(@, bf)]
        n2 == rmLPCols(n1, FalseRemoved(node, info, if_symmetry))
        n3 == IF Len(node.index_columns_in_enumeration_column_pool) # 0
              THEN [n2 EXCEPT !.deleted_columns_in_enumeration_pool =
                       rmColByBranchInEnuMatrix(@, node.index_columns_in_enumeration_column_pool,
                                                bf, if_symmetry)]
              ELSE n2
    IN  [n3 EXCEPT !.idx = new_idx]

-----------------------------------------------------------------------------
(* The calls *)

Live == DOMAIN heap

\* "new BbNode": the object identity of the k-th node allocated by a call
NewObject(k) ==
    CHOOSE o \in 1 .. MaxNodes :
        /\ o \notin Live
        /\ Cardinality({ f \in 1 .. MaxNodes : f \notin Live /\ f < o }) = k - 1

FreeObjects == MaxNodes - Cardinality(Live)

\* an edge is a branching candidate of a node when some column uses it
\* (its LP value is aggregated over the columns traversing it)
IsCandidate(node, edge) ==
    obtainBrcCoefficient(node.cols, edge, ~ IF_SYMMETRY_PROHIBIT).ind # << >>

NoCall == [op |-> "none"]

\* no candidate selection call was made
NoSelection == [op |-> "none"]

\* the controller processes one node at a time: a node whose terminate flag
\* was set is branched or dropped before any other node is processed
NoneTerminated == \A m \in Live : ~ heap[m].if_terminate

\* 2-way calls and terminate flags are explored around the first 3-way rounds
\* and around the rounds at the depth budget; in between only 3-way calls run
Interleaved ==
    \/ three_way_count <= EarlyRounds
    \/ three_way_count >= MAX_3WAY_ROUNDS

\* objects created by a call on node n lie on n's path, inc splits further
PathSplits(n, inc) ==
    [o \in DOMAIN heap' |->
        IF o \in Live THEN splits_on_path[o] ELSE splits_on_path[n] + inc]

\* faulty variant of Resized: the first entry is not set to the node
ResizedNoFront(n) ==
    [k \in 1 .. 2 |-> IF Len(children) >= k THEN children[k] ELSE 0]

\* "children.resize(2); children.front() = node;" 0 stands for nullptr
Resized(n) ==
    [k \in 1 .. 2 |-> IF k = 1 THEN n
                      ELSE IF Len(children) >= 2 THEN children[2] ELSE 0]

\* faulty variant of PopNull: a null last entry stays
PopNullNever(ch) == ch

\* "if (children.back() == nullptr) children.pop_back();"
PopNull(ch) == IF ch[Len(ch)] = 0 THEN SubSeq(ch, 1, Len(ch) - 1) ELSE ch

\* CVRPSolver::imposeBranching
ImposeBranching(n, brc, ub) ==
    /\ ~ aborted
    /\ n \in Live
    /\ Interleaved
    /\ LET node == heap[n]
           sym == ~ IF_SYMMETRY_PROHIBIT
           o == NewObject(1)
           call == [op |-> "two", node |-> n, pre |-> node, input |-> children,
                    edges |-> <<brc>>, made |-> << >>, rm |-> << >>,
                    duals |-> << >>, fallback |-> FALSE]
       IN  IF node.if_terminate
           THEN /\ children' = PopNull(Resized(n))
                /\ last' = [call EXCEPT !.edges = << >>]
                /\ UNCHANGED <<heap, node_idx_counter, aborted>>
           ELSE /\ NoneTerminated
                /\ IsCandidate(node, brc)
                /\ Len(node.brcs) < MaxBrcs
                /\ Cardinality(Live) <= MaxSiblings
                /\ FreeObjects >= 1
                /\ IF node.if_in_enu_state
                   THEN IF obtainColIdxNotAllowByEdge(node.cols, brc, sym) = << >>
                           /\ ub = "crash"
                        THEN /\ aborted' = TRUE
                             /\ UNCHANGED <<heap, children, node_idx_counter, last>>
                        ELSE /\ heap' = (o :> TrueChildInEnu(node, brc, sym,
                                                  node_idx_counter + 1, ub))
                                        @@ [heap EXCEPT ![n] =
                                              FalseChildInEnu(node, brc, sym,
                                                  node_idx_counter + 2)]
                             /\ last' = [call EXCEPT
                                   !.made = <<o>>,
                                   !.rm = << NotAllowRemoved(node, brc, sym, ub),
                                             FalseRemoved(node, brc, sym) >>,
                                   !.duals = EnuDuals(node)]
                             /\ children' = PopNull([Resized(n) EXCEPT ![2] = o])
                             /\ node_idx_counter' = node_idx_counter + 2
                             /\ UNCHANGED aborted
                   ELSE /\ heap' = (o :> TrueChildUnsolved(node, brc, sym,
                                             node_idx_counter + 1))
                                   @@ [heap EXCEPT ![n] =
                                         FalseChildUnsolved(node, brc, sym,
                                             node_idx_counter + 2)]
                        /\ last' = [call EXCEPT
                              !.made = <<o>>,
                              !.rm = << FalseRemoved(node, brc, sym) >>]
                        /\ children' = PopNull([Resized(n) EXCEPT ![2] = o])
                        /\ node_idx_counter' = node_idx_counter + 2
                        /\ UNCHANGED aborted
    /\ splits_on_path' = PathSplits(n, 0)
    /\ UNCHANGED <<three_way_count, IF_SYMMETRY_PROHIBIT>>
    /\ UNCHANGED sel_vars

-----------------------------------------------------------------------------
(* 3-way branching *)

\* Branch A: e1 = 1 and e2 = 1, two rows
ChildA(node, e1, e2, if_symmetry, new_idx) ==
    LET c1 == CloneNode(node, if_symmetry, Brc(e1, getNumRow(node), TRUE), new_idx)
        k1 == obtainBrcCoefficient(c1.cols, e1, if_symmetry)
        c2 == addBranchConstraint(c1, k1.ind, k1.val, TRUE)
        c3 == [c2 EXCEPT !.brcs = Append(@, Brc(e2, getNumRow(c2), TRUE))]
        k2 == obtainBrcCoefficient(c3.cols, e2, if_symmetry)
    IN  addBranchConstraint(c3, k2.ind, k2.val, TRUE)

\* Branch B: e1 = 0 and e2 = 0, two rows, the buckets are left as cloned
ChildB(node, e1, e2, if_symmetry, new_idx) ==
    LET c1 == CloneNode(node, if_symmetry, Brc(e1, getNumRow(node), FALSE), new_idx)
        k1 == obtainBrcCoefficient(c1.cols, e1, if_symmetry)
        c2 == addBranchConstraint(c1, k1.ind, k1.val, FALSE)
        c3 == [c2 EXCEPT !.brcs = Append(@, Brc(e2, getNumRow(c2), FALSE))]
        k2 == obtainBrcCoefficient(c3.cols, e2, if_symmetry)
    IN  addBranchConstraint(c3, k2.ind, k2.val, FALSE)

\* faulty variant of MergedCoef: the coefficients of e2 are not added
MergedCoefFirst(cols, e1, e2, if_symmetry) ==
    LET k1 == obtainBrcCoefficient(cols, e1, if_symmetry)
        d1 == Dense(k1.ind, k1.val, Len(cols))
    IN  [c \in 1 .. Len(cols) |-> IF c = 1 THEN 1 ELSE d1[c]]

\* the merged coefficients of Branch C: tmp_val summed over both edges,
\* column 0 always with coefficient 1, the others when positive
MergedCoef(cols, e1, e2, if_symmetry) ==
    LET k1 == obtainBrcCoefficient(cols, e1, if_symmetry)
        k2 == obtainBrcCoefficient(cols, e2, if_symmetry)
        d1 == Dense(k1.ind, k1.val, Len(cols))
        d2 == Dense(k2.ind, k2.val, Len(cols))
    IN  [c \in 1 .. Len(cols) |-> IF c = 1 THEN 1 ELSE d1[c] + d2[c]]

\* faulty variant of ChildC: one row per edge instead of the merged row
ChildCSeparateRows(node, e1, e2, if_symmetry, new_idx) ==
    ChildA(node, e1, e2, if_symmetry, new_idx)

\* Branch C: x_e1 + x_e2 = 1, two Brcs on one row
ChildC(node, e1, e2, if_symmetry, new_idx) ==
    LET row == getNumRow(node)
        c1 == CloneNode(node, if_symmetry, Brc(e1, row, TRUE), new_idx)
        c2 == [c1 EXCEPT !.brcs = Append(@, Brc(e2, row, TRUE))]
    IN  [c2 EXCEPT !.rows =
            Append(@, Row(MergedCoef(c2.cols, e1, e2, if_symmetry), "=", 1))]

\* fallback child C1: e1 = 1, e2 = 0
ChildC1(node, e1, e2, if_symmetry, new_idx) ==
    LET row1 == getNumRow(node)
        c1 == CloneNode(node, if_symmetry, Brc(e1, row1, TRUE), new_idx)
        k1 == obtainBrcCoefficient(c1.cols, e1, if_symmetry)
        c2 == addBranchConstraint(c1, k1.ind, k1.val, TRUE)
        c3 == [c2 EXCEPT !.brcs = Append(@, Brc(e2, row1, FALSE))]
        k2 == obtainBrcCoefficient(c3.cols, e2, if_symmetry)
    IN  addBranchConstraint(c3, k2.ind, k2.val, FALSE)

\* fallback child C2: e1 = 0, e2 = 1
ChildC2(node, e1, e2, if_symmetry, new_idx) ==
    LET row2 == getNumRow(node)
        c1 == CloneNode(node, if_symmetry, Brc(e1, row2, FALSE), new_idx)
        k1 == obtainBrcCoefficient(c1.cols, e1, if_symmetry)
        c2 == addBranchConstraint(c1, k1.ind, k1.val, FALSE)
        c3 == [c2 EXCEPT !.brcs = Append(@, Brc(e2, row2, TRUE))]
        k2 == obtainBrcCoefficient(c3.cols, e2, if_symmetry)
    IN  addBranchConstraint(c3, k2.ind, k2.val, TRUE)

\* faulty variant of WithinBudget: one round too many
WithinBudgetLate(count) == count <= MAX_3WAY_ROUNDS + 1

\* "if (three_way_count <= MAX_3WAY_ROUNDS)" after "++three_way_count"
WithinBudget(count) == count <= MAX_3WAY_ROUNDS

\* faulty variant of ThreeChildren: the counter is advanced once per call, so
\* the children of one call share an index
ThreeChildrenOneIdx(node, e1, e2, if_symmetry, count) ==
    IF WithinBudget(count)
    THEN << ChildA(node, e1, e2, if_symmetry, node_idx_counter + 1),
            ChildB(node, e1, e2, if_symmetry, node_idx_counter + 1),
            ChildC(node, e1, e2, if_symmetry, node_idx_counter + 1) >>
    ELSE << ChildA(node, e1, e2, if_symmetry, node_idx_counter + 1),
            ChildB(node, e1, e2, if_symmetry, node_idx_counter + 1),
            ChildC1(node, e1, e2, if_symmetry, node_idx_counter + 1),
            ChildC2(node, e1, e2, if_symmetry, node_idx_counter + 1) >>

\* the nodes a call creates, in the order they are pushed
ThreeChildren(node, e1, e2, if_symmetry, count) ==
    IF WithinBudget(count)
    THEN << ChildA(node, e1, e2, if_symmetry, node_idx_counter + 1),
            ChildB(node, e1, e2, if_symmetry, node_idx_counter + 2),
            ChildC(node, e1, e2, if_symmetry, node_idx_counter + 3) >>
    ELSE << ChildA(node, e1, e2, if_symmetry, node_idx_counter + 1),
            ChildB(node, e1, e2, if_symmetry, node_idx_counter + 2),
            ChildC1(node, e1, e2, if_symmetry, node_idx_counter + 3),
            ChildC2(node, e1, e2, if_symmetry, node_idx_counter + 4) >>

\* faulty variant of ReturnedEarly: the vector is cleared before the test of
\* the terminate flag
ReturnedEarlyCleared(ch) == << >>

\* the output vector when imposeThreeBranching returns on a terminated node:
\* the return precedes "children.clear()"
ReturnedEarly(ch) == ch

\* faulty variant of ParentAfterClone: the clones take over the parent's
\* bucket arrays
ParentAfterCloneMoved(node) ==
    [node EXCEPT !.if_root_node = FALSE,
                 !.all_forward_buckets = NoBuckets,
                 !.all_backward_buckets = NoBuckets]

\* the parent once a clone constructor ran: "node->if_root_node = false"
ParentAfterClone(node) == [node EXCEPT !.if_root_node = FALSE]

\* CVRPSolver::imposeThreeBranching
ImposeThreeBranching(n, e1, e2) ==
    /\ ~ aborted
    /\ n \in Live
    /\ e1 # e2
    /\ LET node == heap[n]
           sym == ~ IF_SYMMETRY_PROHIBIT
           count == three_way_count + 1
           made == ThreeChildren(node, e1, e2, sym, count)
           objs == [k \in 1 .. Len(made) |-> NewObject(k)]
       IN  IF node.if_terminate
           THEN /\ last' = [op |-> "three", node |-> n, pre |-> node,
                            input |-> children, edges |-> << >>,
                            made |-> << >>, rm |-> << >>, duals |-> << >>,
                            fallback |-> FALSE]
                /\ children' = ReturnedEarly(children)
                /\ UNCHANGED <<heap, node_idx_counter, three_way_count, aborted>>
           ELSE /\ NoneTerminated
                /\ IsCandidate(node, e1)
                /\ IsCandidate(node, e2)
                /\ Len(node.brcs) + 2 <= MaxBrcs
                /\ three_way_count < MaxThreeWayCalls
                /\ FreeObjects >= Len(made)
                /\ IF CloneTerminates(node, sym)
                   THEN /\ aborted' = TRUE
                        /\ last' = [op |-> "three_terminate", node |-> n,
                                    pre |-> node, input |-> children,
                                    edges |-> <<e1, e2>>, made |-> << >>,
                                    rm |-> << >>, duals |-> << >>,
                                    fallback |-> FALSE]
                        /\ UNCHANGED <<heap, children, node_idx_counter,
                                       three_way_count>>
                   ELSE /\ heap' = [o \in Live \cup { objs[k] : k \in 1 .. Len(made) } |->
                                      IF o \in Live
                                      THEN IF o = n
                                           THEN ParentAfterClone(node)
                                           ELSE heap[o]
                                      ELSE made[CHOOSE k \in 1 .. Len(made) : objs[k] = o]]
                        /\ children' = objs
                        /\ node_idx_counter' = node_idx_counter + Len(made)
                        /\ three_way_count' = count
                        /\ last' = [op |-> "three", node |-> n, pre |-> node,
                                    input |-> children, edges |-> <<e1, e2>>,
                                    made |-> objs, rm |-> << >>, duals |-> << >>,
                                    fallback |-> ~ WithinBudget(count)]
                        /\ UNCHANGED aborted
    /\ splits_on_path' = PathSplits(n, 1)
    /\ UNCHANGED IF_SYMMETRY_PROHIBIT
    /\ UNCHANGED sel_vars

-----------------------------------------------------------------------------
(* Solver errors: a SAFE_SOLVER call fails and the error leaves the operator *)

\* the solver calls of addBranchCutToUnsolved at which an error may be raised
TwoWayErrorSites == { "getNumRow", "addBranchConstraint", "rmLPCols" }

\* imposeBranching on a non-enumeration node, left by a solver error at site
ImposeBranchingError(n, brc, site) ==
    /\ ~ aborted
    /\ n \in Live
    /\ Interleaved
    /\ LET node == heap[n]
           sym == ~ IF_SYMMETRY_PROHIBIT
           o == NewObject(1)
           cloned == site # "getNumRow"
           parent == IF site = "rmLPCols"
                     THEN [node EXCEPT !.if_root_node = FALSE,
                                       !.brcs = Append(@, FalseBrc(brc))]
                     ELSE IF cloned THEN [node EXCEPT !.if_root_node = FALSE]
                     ELSE node
       IN  /\ ~ node.if_terminate
           /\ ~ node.if_in_enu_state
           /\ NoneTerminated
           /\ IsCandidate(node, brc)
           /\ Len(node.brcs) <= MaxErrorBrcs
           /\ Cardinality(Live) <= MaxSiblings
           /\ FreeObjects >= 1
           /\ heap' = IF cloned
                      THEN (o :> (IF site = "rmLPCols"
                                  THEN TrueChildUnsolved(node, brc, sym, node_idx_counter + 1)
                                  ELSE CloneNode(node, sym, TrueBrc(node, brc),
                                                 node_idx_counter + 1)))
                           @@ [heap EXCEPT ![n] = parent]
                      ELSE heap
           /\ children' = IF cloned THEN [Resized(n) EXCEPT ![2] = o] ELSE Resized(n)
           /\ node_idx_counter' = IF cloned THEN node_idx_counter + 1 ELSE node_idx_counter
           /\ last' = [op |-> "two_error", node |-> n, pre |-> node, input |-> children,
                       edges |-> <<brc>>, made |-> IF cloned THEN <<o>> ELSE << >>,
                       site |-> site, count |-> three_way_count]
    /\ aborted' = TRUE
    /\ splits_on_path' = PathSplits(n, 0)
    /\ UNCHANGED <<three_way_count, IF_SYMMETRY_PROHIBIT>>
    /\ UNCHANGED sel_vars

\* imposeThreeBranching left by a solver error after pushed children were
\* completed and pushed; started tells whether the clone of the next child
\* was already constructed (the error is raised by a call on the child)
ImposeThreeBranchingError(n, e1, e2, pushed, started) ==
    /\ ~ aborted
    /\ n \in Live
    /\ e1 # e2
    /\ LET node == heap[n]
           sym == ~ IF_SYMMETRY_PROHIBIT
           count == three_way_count + 1
           made == ThreeChildren(node, e1, e2, sym, count)
           objs == [k \in 1 .. pushed |-> NewObject(k)]
           touched == pushed > 0 \/ started
       IN  /\ ~ node.if_terminate
           /\ NoneTerminated
           /\ IsCandidate(node, e1)
           /\ IsCandidate(node, e2)
           /\ Len(node.brcs) <= MaxErrorBrcs
           /\ Len(node.brcs) + 2 <= MaxBrcs
           /\ three_way_count < MaxThreeWayCalls
           /\ pushed < Len(made)
           /\ FreeObjects >= Len(made)
           /\ ~ CloneTerminates(node, sym)
           /\ heap' = [o \in Live \cup Range(objs) |->
                         IF o \in Live
                         THEN IF o = n /\ touched
                              THEN [node EXCEPT !.if_root_node = FALSE]
                              ELSE heap[o]
                         ELSE made[CHOOSE k \in 1 .. pushed : objs[k] = o]]
           /\ children' = objs
           /\ node_idx_counter' = node_idx_counter + pushed + (IF started THEN 1 ELSE 0)
           /\ three_way_count' = IF pushed >= 2 THEN count ELSE three_way_count
           /\ last' = [op |-> "three_error", node |-> n, pre |-> node,
                       input |-> children, edges |-> <<e1, e2>>, made |-> objs,
                       site |-> <<pushed, started>>, count |-> three_way_count]
    /\ aborted' = TRUE
    /\ splits_on_path' = PathSplits(n, 1)
    /\ UNCHANGED IF_SYMMETRY_PROHIBIT
    /\ UNCHANGED sel_vars

-----------------------------------------------------------------------------
(* The controller around the branching operator *)

\* the controller keeps node n for further processing; the other nodes are
\* processed or pruned and destroyed, and the next call gets a fresh vector
Select(n) ==
    /\ ~ aborted
    /\ n \in Live
    /\ Cardinality(Live) > 1
    /\ heap' = (n :> heap[n])
    /\ children' = << >>
    /\ last' = NoCall
    /\ splits_on_path' = PathSplits(n, 0)
    /\ UNCHANGED <<node_idx_counter, three_way_count, IF_SYMMETRY_PROHIBIT, aborted>>
    /\ UNCHANGED sel_vars

\* pricing or cutting finds node n infeasible and sets its terminate flag
SetTerminate(n) ==
    /\ ~ aborted
    /\ n \in Live
    /\ \A m \in Live : ~ heap[m].if_terminate
    /\ heap' = [heap EXCEPT ![n].if_terminate = TRUE]
    /\ last' = NoCall
    /\ UNCHANGED <<children, node_idx_counter, three_way_count,
                   IF_SYMMETRY_PROHIBIT, aborted, splits_on_path>>
    /\ UNCHANGED sel_vars

\* the branching state after construction of the root node
BranchInit ==
    /\ IF_SYMMETRY_PROHIBIT \in BOOLEAN
    /\ \E enu \in BOOLEAN, pool_idx \in RootPoolIndices :
          heap = (1 :> RootNode(enu, pool_idx, ~ IF_SYMMETRY_PROHIBIT))
    /\ children = << >>
    /\ node_idx_counter = 0
    /\ three_way_count = 0
    /\ aborted = FALSE
    /\ last = NoCall
    /\ splits_on_path = (1 :> 0)

Init ==
    /\ BranchInit
    /\ candidate_map = << >>
    /\ chosen = NoSelection
    /\ outcome = "searching"
    /\ exit_code = << >>

Next ==
    \/ \E n \in 1 .. MaxNodes, brc \in Edges, ub \in UBOutcomes :
          ImposeBranching(n, brc, ub)
    \/ \E n \in 1 .. MaxNodes, p \in EdgePairs :
          ImposeThreeBranching(n, p[1], p[2])
    \/ \E n \in 1 .. MaxNodes : Select(n)
    \/ \E n \in 1 .. MaxNodes : SetTerminate(n)
    \/ \E n \in 1 .. MaxNodes, brc \in Edges, site \in TwoWayErrorSites :
          ImposeBranchingError(n, brc, site)
    \/ \E n \in 1 .. MaxNodes, p \in EdgePairs, pushed \in 0 .. 3, started \in BOOLEAN :
          ImposeThreeBranchingError(n, p[1], p[2], pushed, started)

Spec == Init /\ [][Next]_vars

-----------------------------------------------------------------------------
(* Candidate selection: getTopTwoCandidates and getBestTwoEdges.  LP values *)
(* are kept in tenths, so that 1.0 is One.                                  *)

One == 10

\* the LP values a candidate may have, in tenths
Values == { 0, 2, 3, 5, 7, 10 }

\* candidate maps: some of the edges, each with its LP value
CandidateMaps == UNION { [S -> Values] : S \in SUBSET Edges }

\* (i1,j1) comes before (i2,j2) in lexicographic order on the endpoints
LexLess(a, b) == a[1] < b[1] \/ (a[1] = b[1] /\ a[2] < b[2])

\* the sequences that list every element of S once
Perms(S) ==
    { f \in [1 .. Cardinality(S) -> S] :
        \A i, j \in 1 .. Cardinality(S) : f[i] = f[j] => i = j }

\* the ranked lists the testing phases may leave in refBranchPair()
RankedLists(cmap) == UNION { Perms(T) : T \in SUBSET (DOMAIN cmap) }

\* the orders std::sort may leave for the comparator cmap.at(a) > cmap.at(b):
\* descending values, candidates of equal value in any order
SortedOrders(available, cmap) ==
    { t \in Perms(Range(available)) :
        \A i, j \in 1 .. Len(t) : i < j => cmap[t[i]] >= cmap[t[j]] }

\* index pairs i < j in the order the two nested loops visit them
Before(p, q) == p[1] < q[1] \/ (p[1] = q[1] /\ p[2] <= q[2])

\* faulty variant of getTopTwoCandidates: the two of highest value are taken
\* without looking at the sum
getTopTwoNoSumTest(pairs, cmap, sorted) ==
    IF Len(sorted) >= 2 THEN <<sorted[1], sorted[2]>> ELSE sorted

\* BranchingTesting::getTopTwoCandidates after the testing phases: pairs is
\* the ranked list, sorted the list after std::sort
getTopTwoCandidates(pairs, cmap, sorted) ==
    LET n == Len(sorted)
        good == { p \in (1 .. n) \X (1 .. n) :
                    p[1] < p[2] /\ cmap[sorted[p[1]]] + cmap[sorted[p[2]]] # One }
        first == CHOOSE p \in good : \A q \in good : Before(p, q)
    IN  IF good # {} THEN <<sorted[first[1]], sorted[first[2]]>>
        ELSE IF n >= 2 THEN <<sorted[1], sorted[2]>>
        ELSE IF pairs # << >> THEN <<pairs[1]>>
        ELSE << >>

\* BbNode::obtainSol3DEdgeMap: the two-edge candidates with their summed value
ComboKeys(cmap) == { p \in (DOMAIN cmap) \X (DOMAIN cmap) : LexLess(p[1], p[2]) }

ComboSum(cmap, e) == cmap[e[1]] + cmap[e[2]]

Min(a, b) == IF a < b THEN a ELSE b

\* faulty variant of IsSkipped: the sum of the pair is not tested
IsSkippedNoSumTest(cmap, e) ==
    \/ cmap[e[1]] < SOL_X_TOLERANCE \/ cmap[e[1]] > One - SOL_X_TOLERANCE
    \/ cmap[e[2]] < SOL_X_TOLERANCE \/ cmap[e[2]] > One - SOL_X_TOLERANCE

\* "require both fractional and sum fractional": values within tolerance of
\* 0 or 1 are skipped, and so are sums
IsSkipped(cmap, e) ==
    \/ cmap[e[1]] < SOL_X_TOLERANCE \/ cmap[e[1]] > One - SOL_X_TOLERANCE
    \/ cmap[e[2]] < SOL_X_TOLERANCE \/ cmap[e[2]] > One - SOL_X_TOLERANCE
    \/ ComboSum(cmap, e) < SOL_X_TOLERANCE \/ ComboSum(cmap, e) > One - SOL_X_TOLERANCE

\* 0.7 * s_minf + 0.3 * s_sum with target 1.5, in thousandths
Score(cmap, e) ==
    LET v1 == cmap[e[1]]
        v2 == cmap[e[2]]
        sum == ComboSum(cmap, e)
        dist == IF 2 * sum >= 3 * One THEN 2 * sum - 3 * One ELSE 3 * One - 2 * sum
        s_minf == Min(Min(v1, One - v1), Min(v2, One - v2))
    IN  70 * s_minf - 15 * dist

\* faulty variant of getBestTwoEdges: an empty map yields a default pair
getBestTwoEdgesDefault(cmap, order) ==
    IF order = << >> THEN << <<1, 2>>, <<1, 3>> >> ELSE order[1]

\* CVRPSolver::getBestTwoEdges: order is the order in which the loop
\* enumerates comboMap; a later candidate replaces the best only when its
\* score is strictly higher
getBestTwoEdges(cmap, order) ==
    LET kept == { k \in 1 .. Len(order) : ~ IsSkipped(cmap, order[k]) }
        best == CHOOSE k \in kept :
                    /\ \A m \in kept : Score(cmap, order[m]) <= Score(cmap, order[k])
                    /\ \A m \in kept : m < k =>
                           Score(cmap, order[m]) < Score(cmap, order[k])
    IN  IF order = << >> \/ kept = {} THEN << >> ELSE order[best]

\* a call of getTopTwoCandidates on a ranked list
GetTopTwoCandidates ==
    /\ exit_code = << >>
    /\ chosen.op # "step"
    /\ \E pairs \in RankedLists(candidate_map) :
          \E sorted \in SortedOrders(pairs, candidate_map) :
              chosen' = [op |-> "top2", ranked |-> pairs, order |-> sorted,
                         result |-> getTopTwoCandidates(pairs, candidate_map, sorted)]
    /\ UNCHANGED <<candidate_map, outcome, exit_code>>
    /\ UNCHANGED br_vars

\* a call of getBestTwoEdges on the node's edge maps
GetBestTwoEdges ==
    /\ exit_code = << >>
    /\ chosen.op # "step"
    /\ \E order \in Perms(ComboKeys(candidate_map)) :
          chosen' = [op |-> "best2", ranked |-> << >>, order |-> order,
                     result |-> getBestTwoEdges(candidate_map, order)]
    /\ UNCHANGED <<candidate_map, outcome, exit_code>>
    /\ UNCHANGED br_vars


\* steps 7 of the controller loop on the root node: the scorer is asked for a
\* candidate; when it returns none the node is marked terminate
SelectCandidate ==
    /\ exit_code = << >>
    /\ chosen.op # "step"
    /\ heap[1].if_root_node
    /\ ~ heap[1].if_terminate
    /\ \E order \in Perms(ComboKeys(candidate_map)) :
          LET r == getBestTwoEdges(candidate_map, order)
          IN  /\ chosen' = [op |-> "step", ranked |-> << >>, order |-> order,
                            result |-> r]
              /\ heap' = IF r = << >> THEN [heap EXCEPT ![1].if_terminate = TRUE]
                         ELSE heap
    /\ UNCHANGED <<candidate_map, outcome, exit_code>>
    /\ UNCHANGED <<children, node_idx_counter, three_way_count,
                   IF_SYMMETRY_PROHIBIT, aborted, last, splits_on_path>>

\* step 8 of the controller loop: the winning candidate is handed to the
\* branching operator wired in main()
BranchChosen ==
    /\ exit_code = << >>
    /\ chosen.op = "step"
    /\ chosen.result # << >>
    /\ heap[1].if_root_node
    /\ ImposeThreeBranching(1, chosen.result[1], chosen.result[2])

\* how a search can end
Outcomes == { "optimal", "time_limit", "infeasible", "failure" }

\* the status of a process ended by std::terminate (SIGABRT)
AbortStatus == 134

\* main(): "return 0" after solve() and printOptSol(); an exception leaving
\* solve() is not caught and ends the process through std::terminate
main(o) == IF o = "failure" THEN AbortStatus ELSE 0

\* the search ends and the process exits
MainExit ==
    /\ exit_code = << >>
    /\ \E o \in Outcomes :
          /\ outcome' = o
          /\ exit_code' = << main(o) >>
    /\ UNCHANGED <<candidate_map, chosen>>
    /\ UNCHANGED br_vars

SelInit ==
    /\ BranchInit
    /\ ~ heap[1].if_in_enu_state
    /\ ~ IF_SYMMETRY_PROHIBIT
    /\ candidate_map \in CandidateMaps
    /\ chosen = NoSelection
    /\ outcome = "searching"
    /\ exit_code = << >>

SelNext ==
    \/ GetTopTwoCandidates
    \/ GetBestTwoEdges
    \/ SelectCandidate
    \/ BranchChosen
    \/ MainExit

SelSpec == SelInit /\ [][SelNext]_vars

-----------------------------------------------------------------------------
(* Arc deletion applied to arbitrary bucket graphs *)

\* the shapes a bucket of vertex v may have: every other vertex as a bucket
\* arc, as a jump arc, as both, or as a bucket arc listed twice
Shapes == { "arcs", "jumps", "both", "twice" }

JumpsOf(v, bin) == [k \in 1 .. (Dim - 1) |-> <<bin, Others(v)[k]>>]

ShapedBucket(v, bin, shape) ==
    CASE shape = "arcs" -> Bucket(Others(v), << >>)
      [] shape = "jumps" -> Bucket(<< >>, JumpsOf(v, bin))
      [] shape = "both" -> Bucket(Others(v), JumpsOf(v, bin))
      [] shape = "twice" -> Bucket(Others(v) \o Others(v), << >>)

\* the bucket graphs the deletion is applied to: a shape per vertex for the
\* first bin, plain bucket arcs or jump arcs in the further bins
BucketGraphs ==
    { [v \in Vertices |->
          [bin \in Bins |->
              IF bin = 1 THEN ShapedBucket(v, bin, sh[v])
              ELSE IF bin % 2 = 0 THEN ShapedBucket(v, bin, "jumps")
              ELSE ShapedBucket(v, bin, "arcs")]] : sh \in [Vertices -> Shapes] }

\* the edges handed to the deletion, in either orientation
ArcEdges == { e \in Vertices \X Vertices : e[1] # e[2] }

DeleteRounds == IF last.op = "delete2" THEN last.round ELSE 0

\* deleteArcByFalseBranchConstraint for e1 and then for e2 on the forward
\* buckets of the node; the result of the calls in the other order is kept
\* beside it
DeleteTwo(e1, e2) ==
    /\ DeleteRounds < MaxDeleteRounds
    /\ LET g == heap[1].all_forward_buckets
       IN  /\ heap' = [heap EXCEPT ![1].all_forward_buckets =
                          deleteArcByFalseBranchConstraint(
                              deleteArcByFalseBranchConstraint(g, e1), e2)]
           /\ last' = [op |-> "delete2", node |-> 1, pre |-> heap[1],
                       edges |-> <<e1, e2>>, round |-> DeleteRounds + 1,
                       swapped |-> deleteArcByFalseBranchConstraint(
                                       deleteArcByFalseBranchConstraint(g, e2), e1)]
    /\ UNCHANGED <<children, node_idx_counter, three_way_count,
                   IF_SYMMETRY_PROHIBIT, aborted, splits_on_path>>
    /\ UNCHANGED sel_vars

DelInit ==
    /\ IF_SYMMETRY_PROHIBIT = TRUE
    /\ \E g \in BucketGraphs :
          heap = (1 :> [RootNode(FALSE, << >>, FALSE) EXCEPT
                           !.all_forward_buckets = g,
                           !.all_backward_buckets = g])
    /\ children = << >>
    /\ node_idx_counter = 0
    /\ three_way_count = 0
    /\ aborted = FALSE
    /\ last = NoCall
    /\ splits_on_path = (1 :> 0)
    /\ candidate_map = << >>
    /\ chosen = NoSelection
    /\ outcome = "searching"
    /\ exit_code = << >>

DelNext == \E e1, e2 \in ArcEdges : DeleteTwo(e1, e2)

DelSpec == DelInit /\ [][DelNext]_vars

-----------------------------------------------------------------------------
(* Vocabulary of the properties *)

LastBrc(node) == node.brcs[Len(node.brcs)]

NumValidBrcs(node) ==
    Cardinality({ k \in 1 .. Len(node.brcs) : node.brcs[k].idx_brc # INVALID_BRC_INDEX })

NumCuts(node) == Len(node.rccs) + Len(node.r1cs)

\* pairs of consecutive Brcs, both recorded with br_dir = true, that carry the
\* same solver row: the two Brcs of a MIDDLE child
NumSharedRowPairs(node) ==
    Cardinality({ k \in 1 .. (Len(node.brcs) - 1) :
        /\ node.brcs[k].idx_brc # INVALID_BRC_INDEX
        /\ node.brcs[k].idx_brc = node.brcs[k + 1].idx_brc
        /\ node.brcs[k].br_dir /\ node.brcs[k + 1].br_dir })

\* no bucket of i lists head j and no bucket of j lists head i
ArcsAbsent(buckets, edge) ==
    \A bin \in Bins :
        /\ ~ HasHead(buckets[edge[1]][bin], edge[2])
        /\ ~ HasHead(buckets[edge[2]][bin], edge[1])

EdgeAbsent(node, edge) ==
    /\ ArcsAbsent(node.all_forward_buckets, edge)
    /\ IF_SYMMETRY_PROHIBIT => ArcsAbsent(node.all_backward_buckets, edge)

Occurrences(bucket, j) ==
    Cardinality({ k \in 1 .. Len(bucket.bucket_arcs) : bucket.bucket_arcs[k] = j })
    + Cardinality({ k \in 1 .. Len(bucket.jump_arcs) : bucket.jump_arcs[k][2] = j })

\* the root graph lists each endpoint of the edge at most once in every
\* bucket of the other endpoint
ListedOnce(edge) ==
    \A bin \in Bins :
        /\ Occurrences(RootGraph[edge[1]][bin], edge[2]) <= 1
        /\ Occurrences(RootGraph[edge[2]][bin], edge[1]) <= 1

\* the column traverses the edge, in either order under symmetry
Traverses(col_seq, edge) == EdgeCount(col_seq, edge, ~ IF_SYMMETRY_PROHIBIT) > 0

\* the 0-based indices of the non-dummy columns of a node
NonDummy(node) == 1 .. (Len(node.cols) - 1)

\* the process was not ended by a fatal error: the nodes are those the
\* branching operator handed back
Running == ~ aborted

\* the last call was a 2-way branch that went through (not on a terminated node)
TwoWayDone == last.op = "two" /\ last.made # << >>

\* the last call was a 3-way branch that created its children
ThreeWayDone == last.op = "three" /\ last.made # << >>

-----------------------------------------------------------------------------
(* C1 *)

\* C1 as claimed: in every node the number of LP rows equals the base rows
\* plus the Brcs with a valid idx_brc plus the active cuts.
C1_RowCountAsClaimed ==
    Running => \A o \in Live :
        getNumRow(heap[o]) = NumBaseRows + NumValidBrcs(heap[o]) + NumCuts(heap[o])

\* C1 amended: in every node the number of LP rows equals the base rows plus
\* the Brcs with a valid idx_brc plus the active cuts, where the two Brcs of a
\* MIDDLE child, which share one row, count as one.
C1_RowCount ==
    Running => \A o \in Live :
        getNumRow(heap[o]) = NumBaseRows + NumValidBrcs(heap[o])
                             - NumSharedRowPairs(heap[o]) + NumCuts(heap[o])

\* a MIDDLE child that was branched again by a 2-way call
C1_Witness ==
    \E o \in Live :
        /\ NumSharedRowPairs(heap[o]) = 1
        /\ Len(heap[o].brcs) = 3
        /\ NumValidBrcs(heap[o]) = 3

-----------------------------------------------------------------------------
(* C2 *)

-----------------------------------------------------------------------------
(* C3 *)

\* C3 as claimed: for every Brc with direction FORCE on (i,j), every column
\* of the node other than the dummy traverses i and j consecutively.
C3_ForceColumnsAsClaimed ==
    \A o \in Live :
        \A k \in 1 .. Len(heap[o].brcs) :
            heap[o].brcs[k].br_dir =>
                \A c \in NonDummy(heap[o]) :
                    Traverses(heap[o].cols[c + 1], heap[o].brcs[k].edge)

\* C3 amended: for every FORCE Brc recorded by an enumeration-state branch
\* (no solver row), every column of the node other than column 0 traverses
\* i and j consecutively or visits neither i nor j; the true child of a
\* non-enumeration 2-way branch and the both-FORCE child of a 3-way branch
\* keep all the parent's columns, the constraint being a solver row.
C3_ForceColumns ==
    /\ \A o \in Live :
          \A k \in 1 .. Len(heap[o].brcs) :
              LET bf == heap[o].brcs[k]
              IN  (bf.br_dir /\ bf.idx_brc = INVALID_BRC_INDEX) =>
                      \A c \in NonDummy(heap[o]) :
                          \/ Traverses(heap[o].cols[c + 1], bf.edge)
                          \/ (~ Visits(heap[o].cols[c + 1], bf.edge[1])
                              /\ ~ Visits(heap[o].cols[c + 1], bf.edge[2]))
    /\ (TwoWayDone /\ ~ last.pre.if_in_enu_state) =>
          heap[last.made[1]].cols = last.pre.cols
    /\ ThreeWayDone => heap[last.made[1]].cols = last.pre.cols

\* the true child of an enumeration-state branch lost not-allowed columns
C3_Witness ==
    /\ TwoWayDone
    /\ last.pre.if_in_enu_state
    /\ Len(last.rm[1]) >= 2
    /\ Len(heap[last.made[1]].cols) = Len(last.pre.cols) - Len(last.rm[1])
    /\ Len(heap[last.made[1]].cols) >= 3

-----------------------------------------------------------------------------
(* C4 *)

\* C4: after 2-way and enumeration-state branches the dummy column is still
\* column 0 of every node, and index 0 is in no index list handed to column
\* removal.
C4_DummyKept ==
    /\ \A o \in Live : heap[o].cols[1] = DummyCol
    /\ last.op = "two" =>
          \A k \in 1 .. Len(last.rm) : ~ InSeq(0, last.rm[k])

-----------------------------------------------------------------------------
(* C5 *)

\* the coefficient of 0-based column c in the row that enforces the edge alone
EdgeCoef(cols, edge, c) == EdgeCount(cols[c + 1], edge, ~ IF_SYMMETRY_PROHIBIT)

\* the last call was a 3-way branch within the round budget: children A, B, C
MiddleDone == ThreeWayDone /\ three_way_count <= MAX_3WAY_ROUNDS

\* the row appended last to the LP of a node
LastRow(node) == node.rows[Len(node.rows)]

\* C5 as claimed: the row of the MIDDLE child has sense '=', right-hand side
\* 1, and on every column, the dummy included, the coefficient is the sum of
\* the column's coefficients for e1 and for e2.
C5_MiddleRowAsClaimed ==
    MiddleDone =>
        LET c == heap[last.made[3]]
        IN  /\ LastRow(c).sense = "=" /\ LastRow(c).rhs = 1
            /\ \A k \in 0 .. (Len(c.cols) - 1) :
                  LastRow(c).coef[k + 1] = EdgeCoef(c.cols, last.edges[1], k)
                                           + EdgeCoef(c.cols, last.edges[2], k)

\* C5 amended: the row of the MIDDLE child has sense '=', right-hand side 1,
\* the coefficient of every column other than the dummy is the sum of the
\* column's coefficients for e1 and for e2, and the dummy column has
\* coefficient 1.
C5_MiddleRow ==
    MiddleDone =>
        LET c == heap[last.made[3]]
        IN  /\ LastRow(c).sense = "=" /\ LastRow(c).rhs = 1
            /\ LastRow(c).coef[1] = 1
            /\ \A k \in NonDummy(c) :
                  LastRow(c).coef[k + 1] = EdgeCoef(c.cols, last.edges[1], k)
                                           + EdgeCoef(c.cols, last.edges[2], k)

\* a MIDDLE child with a column of merged coefficient 2 and a dummy tour that
\* uses both edges
C5_Witness ==
    /\ MiddleDone
    /\ \E k \in NonDummy(last.pre) : LastRow(heap[last.made[3]]).coef[k + 1] = 2
    /\ EdgeCoef(last.pre.cols, last.edges[1], 0)
       + EdgeCoef(last.pre.cols, last.edges[2], 0) = 2

-----------------------------------------------------------------------------
(* C6 *)

\* the last call was a 2-way branch on a node flagged for termination
TwoWayOnTerminated == last.op = "two" /\ last.pre.if_terminate

-----------------------------------------------------------------------------
(* C7 *)

\* C7: after a 2-way branch on a non-terminated node the children vector is
\* [false child, true child]: the first entry is the node that was branched,
\* modified in place, the second a newly created clone, and no entry is null.
C7_TwoWayOutput ==
    TwoWayDone =>
        /\ Len(children) = 2
        /\ children[1] = last.node
        /\ children[2] = last.made[1]
        /\ children[2] # children[1]
        /\ \A k \in 1 .. 2 : children[k] # 0 /\ children[k] \in Live
        /\ heap[children[1]].idx # heap[children[2]].idx
        /\ ~ LastBrc(heap[children[1]]).br_dir
        /\ LastBrc(heap[children[2]]).br_dir
        /\ heap[children[2]].idx > last.pre.idx

\* a 2-way branch of a node that came out of an earlier branch, called with a
\* children vector that still held other nodes
C7_Witness ==
    /\ TwoWayDone
    /\ Len(last.pre.brcs) >= 1
    /\ Len(last.input) >= 2
    /\ children[1] = last.node

-----------------------------------------------------------------------------
(* C8 *)

\* the nodes of the children vector in delivery order have these directions
\* on the edge just branched, and each has one Brc more than the parent
Delivered(dirs) ==
    /\ Len(children) = Len(dirs)
    /\ \A k \in 1 .. Len(dirs) :
          /\ children[k] \in Live
          /\ Len(heap[children[k]].brcs) = Len(last.pre.brcs) + 1
          /\ SubSeq(heap[children[k]].brcs, 1, Len(last.pre.brcs)) = last.pre.brcs
          /\ LastBrc(heap[children[k]]).edge = last.edges[1]
          /\ LastBrc(heap[children[k]]).br_dir = dirs[k]

\* C8 as claimed: a 2-way branch delivers the true child before the false
\* child, and the brcs of both are one longer than the parent's.
C8_TrueFirstAsClaimed == TwoWayDone => Delivered(<<TRUE, FALSE>>)

\* C8 amended: a 2-way branch delivers the false child before the true
\* child, and the brcs of both are the parent's plus one entry on the edge.
C8_FalseFirst == TwoWayDone => Delivered(<<FALSE, TRUE>>)

\* a 2-way branch in enumeration state and one outside it
C8_Witness ==
    /\ TwoWayDone
    /\ ~ last.pre.if_in_enu_state
    /\ Len(last.pre.brcs) = 2
    /\ Len(heap[children[2]].brcs) = 3

-----------------------------------------------------------------------------
(* C9 *)

\* child k of the last 3-way call extends the parent's brcs by e1 then e2
\* with the given directions, and its LP by the given number of rows
Extends(k, d1, d2, nrows) ==
    LET c == heap[children[k]]
        m == Len(last.pre.brcs)
    IN  /\ Len(c.brcs) = m + 2
        /\ SubSeq(c.brcs, 1, m) = last.pre.brcs
        /\ c.brcs[m + 1].edge = last.edges[1] /\ c.brcs[m + 1].br_dir = d1
        /\ c.brcs[m + 2].edge = last.edges[2] /\ c.brcs[m + 2].br_dir = d2
        /\ getNumRow(c) = getNumRow(last.pre) + nrows

\* the last nrows rows of child k have these right-hand sides
RhsOf(k, rhs) ==
    LET c == heap[children[k]]
    IN  \A r \in 1 .. Len(rhs) :
            c.rows[getNumRow(last.pre) + r].rhs = rhs[r]

\* C9: within the round budget a 3-way branch on a non-terminated node
\* outputs exactly three children, A (both edges forced), B (both forbidden)
\* and C (MIDDLE) in this order; the brcs of each is the parent's followed by
\* an entry for e1 and one for e2; the LP of A and of B has two rows more
\* than the parent's and the LP of C one row more.
C9_ThreeChildren ==
    MiddleDone =>
        /\ Len(children) = 3
        /\ children = last.made
        /\ Extends(1, TRUE, TRUE, 2) /\ RhsOf(1, <<1, 1>>)
        /\ Extends(2, FALSE, FALSE, 2) /\ RhsOf(2, <<0, 0>>)
        /\ Extends(3, TRUE, TRUE, 1) /\ RhsOf(3, <<1>>)
        /\ NumSharedRowPairs(heap[children[1]]) = NumSharedRowPairs(last.pre)
        /\ NumSharedRowPairs(heap[children[3]]) = NumSharedRowPairs(last.pre) + 1

\* the last 3-way call of the budget, on a node that was branched before
C9_Witness ==
    /\ MiddleDone
    /\ Len(children) = 3
    /\ Len(last.pre.brcs) = 1
    /\ three_way_count = MAX_3WAY_ROUNDS

-----------------------------------------------------------------------------
(* C10 *)

\* the last call was a 3-way branch beyond the round budget
FallbackDone == ThreeWayDone /\ three_way_count > MAX_3WAY_ROUNDS

\* C10 as claimed: beyond the budget a 3-way branch outputs only two
\* children, one enforcing e1 = 1, e2 = 0 and one enforcing e1 = 0, e2 = 1.
C10_FallbackTwoAsClaimed ==
    FallbackDone =>
        /\ Len(children) = 2
        /\ Extends(1, TRUE, FALSE, 2) /\ RhsOf(1, <<1, 0>>)
        /\ Extends(2, FALSE, TRUE, 2) /\ RhsOf(2, <<0, 1>>)

\* C10 amended: beyond the budget a 3-way branch outputs four children: A
\* and B as before, and in place of the MIDDLE child one child enforcing
\* e1 = 1, e2 = 0 and one enforcing e1 = 0, e2 = 1, each with two rows.
C10_FallbackFour ==
    FallbackDone =>
        /\ Len(children) = 4
        /\ children = last.made
        /\ Extends(1, TRUE, TRUE, 2) /\ RhsOf(1, <<1, 1>>)
        /\ Extends(2, FALSE, FALSE, 2) /\ RhsOf(2, <<0, 0>>)
        /\ Extends(3, TRUE, FALSE, 2) /\ RhsOf(3, <<1, 0>>)
        /\ Extends(4, FALSE, TRUE, 2) /\ RhsOf(4, <<0, 1>>)

\* the first 3-way call beyond the budget
C10_Witness ==
    /\ FallbackDone
    /\ three_way_count = MAX_3WAY_ROUNDS + 1
    /\ Len(last.made) = 4

-----------------------------------------------------------------------------
(* C11 *)

\* C11: the 3-way budget is per path: a 3-way call replaces Branch C by the
\* two fallback children if and only if more than MAX_3WAY_ROUNDS 3-way
\* splits were already made on the root-to-node path of the node branched;
\* splits made on other paths do not count.
C11_PerPathBudget ==
    ThreeWayDone =>
        ((Len(last.made) = 4) <=> (splits_on_path[last.node] > MAX_3WAY_ROUNDS))

-----------------------------------------------------------------------------
(* C12 *)

\* the last selection call was getTopTwoCandidates on at least two candidates
TopTwoCalled == chosen.op = "top2" /\ Len(chosen.ranked) >= 2

SumsToOne(a, b) == candidate_map[a] + candidate_map[b] = One

\* the ranked list holds two candidates whose values do not sum to 1
HasFreePair(ranked) ==
    \E a, b \in Range(ranked) : a # b /\ ~ SumsToOne(a, b)

\* C12: on a ranked list of at least two candidates getTopTwoCandidates
\* returns exactly two distinct candidates of the list; their values do not
\* sum to 1 whenever the list holds such a pair, and only when every pair of
\* the list sums to 1 they are the two candidates of highest value.
C12_TopTwo ==
    TopTwoCalled =>
        LET r == chosen.result
        IN  /\ Len(r) = 2
            /\ r[1] # r[2]
            /\ r[1] \in Range(chosen.ranked) /\ r[2] \in Range(chosen.ranked)
            /\ IF HasFreePair(chosen.ranked)
               THEN ~ SumsToOne(r[1], r[2])
               ELSE \A c \in Range(chosen.ranked) \ { r[1], r[2] } :
                       /\ candidate_map[c] <= candidate_map[r[1]]
                       /\ candidate_map[c] <= candidate_map[r[2]]

\* three ranked candidates of which the two of highest value sum to 1
C12_Witness ==
    /\ TopTwoCalled
    /\ Len(chosen.ranked) = 3
    /\ SumsToOne(chosen.order[1], chosen.order[2])
    /\ ~ SumsToOne(chosen.result[1], chosen.result[2])

\* three ranked candidates of which every pair sums to 1
C12_WitnessAllSum ==
    /\ TopTwoCalled
    /\ Len(chosen.ranked) = 3
    /\ ~ HasFreePair(chosen.ranked)
    /\ chosen.result = <<chosen.order[1], chosen.order[2]>>

-----------------------------------------------------------------------------
(* C13 *)

\* the candidates in descending value, candidates of equal value in
\* lexicographic order of their endpoints
LexSorted(ranked) ==
    CHOOSE t \in SortedOrders(ranked, candidate_map) :
        \A i, j \in 1 .. Len(t) :
            (i < j /\ candidate_map[t[i]] = candidate_map[t[j]]) => LexLess(t[i], t[j])

\* two-edge candidates in lexicographic order: first edge, then second edge
ComboLexLess(a, b) == LexLess(a[1], b[1]) \/ (a[1] = b[1] /\ LexLess(a[2], b[2]))

\* the two-edge candidates that pass the fractionality test with the highest score
BestCombos ==
    { e \in ComboKeys(candidate_map) :
        /\ ~ IsSkipped(candidate_map, e)
        /\ \A f \in ComboKeys(candidate_map) :
              ~ IsSkipped(candidate_map, f) =>
                  Score(candidate_map, f) <= Score(candidate_map, e) }

\* C13: candidate selection breaks ties lexicographically: among candidates
\* (or candidate pairs) of equal score getTopTwoCandidates and getBestTwoEdges
\* select the smallest in lexicographic order on the edge endpoints, whatever
\* the order in which the ranked list or the candidate map enumerates them.
C13_LexTieBreak ==
    /\ TopTwoCalled =>
          chosen.result = getTopTwoCandidates(chosen.ranked, candidate_map,
                                              LexSorted(chosen.ranked))
    /\ (chosen.op = "best2" /\ BestCombos # {}) =>
          /\ chosen.result \in BestCombos
          /\ \A e \in BestCombos : e = chosen.result \/ ComboLexLess(chosen.result, e)

-----------------------------------------------------------------------------
(* C14 *)

\* the controller asked for a candidate on a node whose candidate map is empty
StepOnEmptyMap == chosen.op = "step" /\ ComboKeys(candidate_map) = {}

-----------------------------------------------------------------------------
(* C15 *)

\* C15: the exit code of the process is 0 when the search finished optimal
\* within the time limit, 1 when the time limit was reached, 2 when the
\* problem is infeasible and above 2 on an unrecoverable failure.
C15_ExitCodes ==
    exit_code # << >> =>
        /\ outcome = "optimal" => exit_code[1] = 0
        /\ outcome = "time_limit" => exit_code[1] = 1
        /\ outcome = "infeasible" => exit_code[1] = 2
        /\ outcome = "failure" => exit_code[1] > 2

-----------------------------------------------------------------------------
(* C16 *)

\* the last branching call was left by a solver error
LeftByError == last.op = "two_error" \/ last.op = "three_error"

\* C16: a solver error raised in a 2-way or 3-way branching is fatal and
\* retains no partial state: when the error leaves the operator no child has
\* been placed in the output vector, and the parent's brcs, columns, buckets
\* and root flag and the 3-way counter are as before the call.
C16_NoPartialState ==
    LeftByError =>
        /\ aborted
        /\ \A k \in 1 .. Len(children) : children[k] \notin Range(last.made)
        /\ heap[last.node].brcs = last.pre.brcs
        /\ heap[last.node].cols = last.pre.cols
        /\ heap[last.node].all_forward_buckets = last.pre.all_forward_buckets
        /\ heap[last.node].all_backward_buckets = last.pre.all_backward_buckets
        /\ heap[last.node].if_root_node = last.pre.if_root_node
        /\ three_way_count = last.count

-----------------------------------------------------------------------------
(* C17 *)

\* the last call was a completed 2-way branch on a non-enumeration node
UnsolvedDone == TwoWayDone /\ ~ last.pre.if_in_enu_state

\* C17: the true child of a 2-way branch on a non-enumeration node has the
\* parent's brcs followed by one Brc with the branched edge, direction FORCE
\* and idx_brc equal to the parent's row count before the branch; its LP is
\* the parent's plus one row at that index with sense '=', right-hand side 1
\* and the edge's coefficients; no column is removed from it.
C17_TrueChild ==
    UnsolvedDone =>
        LET c == heap[last.made[1]]
            r == getNumRow(last.pre)
        IN  /\ c.brcs = Append(last.pre.brcs, Brc(last.edges[1], r, TRUE))
            /\ getNumRow(c) = r + 1
            /\ SubSeq(c.rows, 1, r) = last.pre.rows
            /\ c.rows[r + 1].sense = "=" /\ c.rows[r + 1].rhs = 1
            /\ \A k \in 0 .. (Len(c.cols) - 1) :
                  c.rows[r + 1].coef[k + 1] = EdgeCoef(c.cols, last.edges[1], k)
            /\ c.cols = last.pre.cols

\* the true child of a node that had lost columns and gained a row before
C17_Witness ==
    /\ UnsolvedDone
    /\ Len(last.pre.cols) < Len(RootCols)
    /\ getNumRow(last.pre) > NumBaseRows + NumCuts(last.pre)
    /\ getNumRow(heap[last.made[1]]) = getNumRow(last.pre) + 1

-----------------------------------------------------------------------------
(* C18 *)

\* the 0-based indices of the columns of the parent, other than the dummy,
\* whose coefficient on the branch row is at least 1
UsingCols(node, edge) == { k \in NonDummy(node) : EdgeCoef(node.cols, edge, k) >= 1 }

\* the false child is the parent in place with one FORBID Brc without a row,
\* no new LP row, the edge-using columns removed and a new index
FalseChildBasics ==
    LET f == heap[last.node]
        pre == last.pre
        gone == UsingCols(pre, last.edges[1])
    IN  /\ children[1] = last.node
        /\ f.brcs = Append(pre.brcs, Brc(last.edges[1], INVALID_BRC_INDEX, FALSE))
        /\ getNumRow(f) = getNumRow(pre)
        /\ Range(last.rm[1]) = gone
        /\ Len(f.cols) = Len(pre.cols) - Cardinality(gone)
        /\ Range(f.cols) = { pre.cols[k + 1] : k \in (0 .. (Len(pre.cols) - 1)) \ gone }
        /\ f.cols[1] = DummyCol
        /\ f.idx # pre.idx
        /\ f.idx = node_idx_counter
        /\ \A o \in Live \ { last.node } : heap[o].idx # f.idx

\* in every bucket of i one listing of head j is gone, if there was one
OneListingGone(after, before, i, j) ==
    \A bin \in Bins :
        Occurrences(after[i][bin], j) =
            (IF Occurrences(before[i][bin], j) = 0 THEN 0
             ELSE Occurrences(before[i][bin], j) - 1)

ArcListingGone(after, before, edge) ==
    /\ OneListingGone(after, before, edge[1], edge[2])
    /\ OneListingGone(after, before, edge[2], edge[1])

-----------------------------------------------------------------------------
(* C19 *)

\* the last call was a completed 2-way branch on an enumeration-state node
InEnuDone == TwoWayDone /\ last.pre.if_in_enu_state

\* the 0-based indices of the parent's columns, other than the dummy, that
\* the FORCE direction does not allow
NotAllowCols(node, edge) ==
    Range(obtainColIdxNotAllowByEdge(node.cols, edge, ~ IF_SYMMETRY_PROHIBIT)) \ {0}

\* the columns of the parent without those at the 0-based indices in gone
ColsWithout(node, gone) ==
    { node.cols[k + 1] : k \in (0 .. (Len(node.cols) - 1)) \ gone }

\* the deleted-mask of the child is the parent's plus the pool columns that
\* violate the child's Brc
MaskExtended(child, pre, bf) ==
    LET pool_idx == pre.index_columns_in_enumeration_column_pool
    IN  IF Len(pool_idx) = 0
        THEN child.deleted_columns_in_enumeration_pool = pre.deleted_columns_in_enumeration_pool
        ELSE child.deleted_columns_in_enumeration_pool =
                 rmColByBranchInEnuMatrix(pre.deleted_columns_in_enumeration_pool,
                                          pool_idx, bf, ~ IF_SYMMETRY_PROHIBIT)

-----------------------------------------------------------------------------
(* C20 *)

\* the last call was a completed branch that handed back children
BranchDone == TwoWayDone \/ ThreeWayDone

\* the child keeps the enumeration state of an enumeration-state parent
KeepsEnuState(c, pre) ==
    /\ c.if_in_enu_state
    /\ c.all_forward_buckets = NoBuckets
    /\ c.all_backward_buckets = NoBuckets
    /\ c.index_columns_in_enumeration_column_pool =
           pre.index_columns_in_enumeration_column_pool
    /\ c.cost_for_columns_in_enumeration_column_pool =
           pre.cost_for_columns_in_enumeration_column_pool
    /\ Len(c.deleted_columns_in_enumeration_pool) =
           Len(pre.deleted_columns_in_enumeration_pool)
    /\ \A k \in 1 .. Len(pre.deleted_columns_in_enumeration_pool) :
           pre.deleted_columns_in_enumeration_pool[k] =>
               c.deleted_columns_in_enumeration_pool[k]

\* the child of a non-enumeration parent is not in enumeration state and has
\* buckets of its own
OwnBuckets(c) ==
    /\ ~ c.if_in_enu_state
    /\ c.all_forward_buckets # NoBuckets
    /\ IF_SYMMETRY_PROHIBIT => c.all_backward_buckets # NoBuckets

\* the children of a completed branch are of the parent's kind
ChildrenOfKind ==
    BranchDone =>
        \A k \in 1 .. Len(children) :
            IF last.pre.if_in_enu_state
            THEN KeepsEnuState(heap[children[k]], last.pre)
            ELSE OwnBuckets(heap[children[k]])

\* C20: every branching operation (2-way, enumeration-state, 3-way) on a node
\* in enumeration state hands back children in enumeration state, without
\* buckets, with the parent's pool indices, costs and deleted-mask; every
\* child of a non-enumeration node is not in enumeration state and has its
\* own buckets. A 3-way branch on an enumeration-state node that ends the
\* process in the clone constructor hands back no such children.
C20_EnuStatePreserved ==
    /\ ChildrenOfKind
    /\ last.op # "three_terminate"

-----------------------------------------------------------------------------
(* C21 *)

\* the clone holds the parent's columns, cuts, LP rows and buckets as they
\* were when the branch began
CopyOf(c, pre) ==
    /\ c.cols = pre.cols
    /\ c.rccs = pre.rccs
    /\ c.r1cs = pre.r1cs
    /\ SubSeq(c.rows, 1, getNumRow(pre)) = pre.rows
    /\ c.all_forward_buckets = pre.all_forward_buckets
    /\ IF_SYMMETRY_PROHIBIT => c.all_backward_buckets = pre.all_backward_buckets

\* the clones of the last branch on a non-enumeration node
NewClones ==
    IF BranchDone /\ ~ last.pre.if_in_enu_state THEN Range(last.made) ELSE {}

ClonesAreCopies == \A o \in NewClones : CopyOf(heap[o], last.pre)

\* a step leaves the columns, LP and buckets of every node other than the one
\* it operates on as they were
OthersUntouched ==
    \A o \in (DOMAIN heap) \cap (DOMAIN heap') :
        (last'.op = "none" \/ o # last'.node) =>
            /\ heap'[o].cols = heap[o].cols
            /\ heap'[o].rows = heap[o].rows
            /\ heap'[o].all_forward_buckets = heap[o].all_forward_buckets
            /\ heap'[o].all_backward_buckets = heap[o].all_backward_buckets

\* C21: a cloned child is a deep copy: it holds the parent's columns, cuts,
\* LP rows and buckets as they were at its creation, whatever the branch then
\* does to the parent (column removal, arc deletion), and no later step on
\* another node changes its columns, LP or buckets.
C21_DeepCopy == [] ClonesAreCopies /\ [][OthersUntouched]_vars

\* a 2-way branch whose false child lost edge-using columns and the arc,
\* both of which the true child still has
C21_Witness ==
    /\ UnsolvedDone
    /\ IF_SYMMETRY_PROHIBIT
    /\ Len(heap[last.node].cols) < Len(last.pre.cols)
    /\ EdgeAbsent(heap[last.node], last.edges[1])
    /\ ~ EdgeAbsent(heap[last.made[1]], last.edges[1])
    /\ \E k \in UsingCols(last.pre, last.edges[1]) :
           InSeq(last.pre.cols[k + 1], heap[last.made[1]].cols)

-----------------------------------------------------------------------------
(* C22 *)

\* the two Brcs that Branch C recorded in the MIDDLE child of the last call
MiddleBrcs ==
    LET c == heap[last.made[3]]
    IN  { c.brcs[Len(c.brcs) - 1], c.brcs[Len(c.brcs)] }

\* C22: the two Brcs of the MIDDLE child carry a direction that is neither
\* FORCE (true) nor FORBID (false), so the direction flag tells them apart
\* from the FORCE Brcs of the both-FORCE child of the same branch.
C22_MiddleDirection ==
    MiddleDone =>
        \A b \in MiddleBrcs :
            /\ b.br_dir \notin BOOLEAN
            /\ b.br_dir # LastBrc(heap[last.made[1]]).br_dir

-----------------------------------------------------------------------------
(* C23 *)

\* the last selection was a call of getBestTwoEdges
BestTwoCalled == chosen.op = "best2"

\* twice the distance of the pair's combined value from 1.5
DistToTarget(cmap, e) ==
    IF 2 * ComboSum(cmap, e) >= 3 * One
    THEN 2 * ComboSum(cmap, e) - 3 * One
    ELSE 3 * One - 2 * ComboSum(cmap, e)

\* C23: getBestTwoEdges returns, among the edge pairs of the pair map, one
\* whose combined value is as close as possible to 1.5: no pair of the map
\* is strictly closer.
C23_ClosestToTarget ==
    (BestTwoCalled /\ ComboKeys(candidate_map) # {}) =>
        /\ chosen.result \in ComboKeys(candidate_map)
        /\ \A e \in ComboKeys(candidate_map) :
               DistToTarget(candidate_map, chosen.result)
                   <= DistToTarget(candidate_map, e)

-----------------------------------------------------------------------------
(* C24 *)

\* the nodes that exist have pairwise distinct indices, none above the counter
UniqueIdx ==
    /\ \A o, p \in Live : o # p => heap[o].idx # heap[p].idx
    /\ \A o \in Live : heap[o].idx <= node_idx_counter

\* the nodes that a step creates or re-indexes
Indexed == { o \in DOMAIN heap' : o \notin DOMAIN heap \/ heap'[o].idx # heap[o].idx }

\* every index a step assigns is above all indices assigned before
IdxMonotone ==
    \A o \in Indexed :
        /\ heap'[o].idx > node_idx_counter
        /\ \A p \in DOMAIN heap : heap'[o].idx > heap[p].idx

\* C24: node indices are unique and monotonically increasing: all nodes that
\* exist have pairwise distinct indices, and every index a branch operation
\* assigns is strictly greater than every index assigned before it.
C24_UniqueMonotoneIdx == [] UniqueIdx /\ [][IdxMonotone]_vars

\* clones and re-indexed false children of several branches exist together
C24_Witness ==
    /\ TwoWayDone
    /\ Cardinality(Live) >= 3
    /\ node_idx_counter >= 4
    /\ heap[last.node].idx = node_idx_counter
    /\ heap[last.made[1]].idx = node_idx_counter - 1
    /\ \E o \in Live : heap[o].idx < last.pre.idx

-----------------------------------------------------------------------------
(* C25 *)

\* the last step deleted the arcs of two edges from a bucket graph
DeleteTwoDone == last.op = "delete2"

\* C25: arc deletion commutes: deleting (i,j) and then (k,l) leaves the same
\* bucket_arcs and jump_arcs lists in every bucket as deleting (k,l) and then
\* (i,j).
C25_DeleteCommutes ==
    DeleteTwoDone => heap[1].all_forward_buckets = last.swapped

\* two different edges with a common vertex whose first bucket lists every
\* head in both arc lists, and both deletions took something away
C25_Witness ==
    /\ DeleteTwoDone
    /\ last.edges[1][1] = last.edges[2][1]
    /\ last.edges[1][2] # last.edges[2][2]
    /\ LET b == last.pre.all_forward_buckets[last.edges[1][1]][1]
       IN  /\ b.jump_arcs # << >> /\ b.bucket_arcs # << >>
           /\ Len(heap[1].all_forward_buckets[last.edges[1][1]][1].bucket_arcs)
                  = Len(b.bucket_arcs) - 2
    /\ \E v \in Vertices : \E bin \in Bins :
           Len(heap[1].all_forward_buckets[v][bin].jump_arcs)
               < Len(last.pre.all_forward_buckets[v][bin].jump_arcs)

-----------------------------------------------------------------------------
(* C26 *)

\* C26: imposeThreeBranching neither mutates nor reuses the parent: after a
\* call that created children the parent's brcs, columns, LP rows and arc
\* buckets are as before (of all its fields only the root flag is cleared),
\* and no output child is the parent object.
C26_ParentKept ==
    ThreeWayDone =>
        LET p == heap[last.node]
        IN  /\ p.brcs = last.pre.brcs
            /\ p.cols = last.pre.cols
            /\ p.rows = last.pre.rows
            /\ p.all_forward_buckets = last.pre.all_forward_buckets
            /\ p.all_backward_buckets = last.pre.all_backward_buckets
            /\ p = [last.pre EXCEPT !.if_root_node = FALSE]
            /\ children = last.made
            /\ \A k \in 1 .. Len(children) : children[k] # last.node

\* a 3-way branch on a node that an earlier 2-way branch handed back in place
C26_Witness ==
    /\ ThreeWayDone
    /\ IF_SYMMETRY_PROHIBIT
    /\ Len(last.pre.brcs) >= 1
    /\ InSeq(last.node, last.input)
    /\ Len(last.pre.cols) < Len(RootCols)

-----------------------------------------------------------------------------
(* C27 *)

\* the last call was a 3-way branch on a node flagged for termination
ThreeWayOnTerminated == last.op = "three" /\ last.pre.if_terminate

\* a step that is such a call creates no node and advances no counter
NothingCreated ==
    (last'.op = "three" /\ last'.pre.if_terminate) =>
        /\ heap' = heap
        /\ node_idx_counter' = node_idx_counter
        /\ three_way_count' = three_way_count

\* C27: imposeThreeBranching on a node whose terminate flag is set creates no
\* node, does not advance the 3-way counter and leaves the children vector
\* exactly as it was passed in, without clearing it.
C27_TerminatedThreeWay ==
    /\ [] (ThreeWayOnTerminated => (children = last.input /\ last.made = << >>))
    /\ [][NothingCreated]_vars

\* the call was handed the two children of an earlier 2-way branch
C27_Witness ==
    /\ ThreeWayOnTerminated
    /\ Len(last.input) = 2
    /\ children = last.input
    /\ three_way_count >= 1

-----------------------------------------------------------------------------
(* C28 *)

\* the LP row a Brc names
RowOf(node, b) == node.rows[b.idx_brc + 1]

\* the row enforces x_edge = 1 for FORCE and x_edge = 0 for FORBID
RowEnforces(node, b) ==
    /\ RowOf(node, b).sense = "="
    /\ RowOf(node, b).rhs = (IF b.br_dir THEN 1 ELSE 0)
    /\ \A c \in NonDummy(node) :
           RowOf(node, b).coef[c + 1] = EdgeCoef(node.cols, b.edge, c)

\* the row enforces x_e1 + x_e2 = 1 for the two Brcs of a MIDDLE branch
RowEnforcesPair(node, b1, b2) ==
    /\ b1.br_dir /\ b2.br_dir
    /\ RowOf(node, b1).sense = "="
    /\ RowOf(node, b1).rhs = 1
    /\ \A c \in NonDummy(node) :
           RowOf(node, b1).coef[c + 1] =
               EdgeCoef(node.cols, b1.edge, c) + EdgeCoef(node.cols, b2.edge, c)

\* the positions of the Brcs of a node that name the same row as Brc k
SameRow(node, k) ==
    { m \in 1 .. Len(node.brcs) : m # k /\ node.brcs[m].idx_brc = node.brcs[k].idx_brc }

BrcNamesItsRow(node, k) ==
    LET b == node.brcs[k]
    IN  b.idx_brc # INVALID_BRC_INDEX =>
            /\ b.idx_brc + 1 <= getNumRow(node)
            /\ IF SameRow(node, k) = {}
               THEN RowEnforces(node, b)
               ELSE /\ SameRow(node, k) \in { {k - 1}, {k + 1} }
                    /\ \A m \in SameRow(node, k) : RowEnforcesPair(node, b, node.brcs[m])

\* C28: in every node produced by branching each Brc with a valid idx_brc
\* names the LP row that enforces its own edge and direction, and two Brcs of
\* a node name the same row only as the two Brcs of a MIDDLE branch; in the
\* depth-fallback children the second Brc names the second row added.
C28_BrcNamesRow ==
    Running =>
        /\ \A o \in Live : \A k \in 1 .. Len(heap[o].brcs) : BrcNamesItsRow(heap[o], k)
        /\ FallbackDone =>
              \A j \in 3 .. 4 :
                  LastBrc(heap[last.made[j]]).idx_brc = getNumRow(last.pre) + 1

-----------------------------------------------------------------------------
(* C29 *)

\* C29: every child a branching operation hands back (2-way, enumeration
\* state, 3-way, depth fallback) has the value and the last_gap the parent
\* had when the branch began, so no child's value is below its parent's.
C29_ValueInherited ==
    BranchDone =>
        \A k \in 1 .. Len(children) :
            /\ heap[children[k]].value = last.pre.value
            /\ heap[children[k]].last_gap = last.pre.last_gap
            /\ heap[children[k]].value >= heap[last.node].value

\* both children of a branch on an enumeration-state node carry the value and
\* gap of the root LP
C29_Witness ==
    /\ InEnuDone
    /\ Len(children) = 2
    /\ last.pre.value > 0 /\ last.pre.last_gap > 0
    /\ heap[children[2]].value = last.pre.value
    /\ heap[children[2]].last_gap = last.pre.last_gap
    /\ heap[children[2]].if_in_enu_state

-----------------------------------------------------------------------------
(* C30 *)

\* the value lies in [SOL_X_TOLERANCE, 1 - SOL_X_TOLERANCE]
Fractional(x) == x >= SOL_X_TOLERANCE /\ x <= One - SOL_X_TOLERANCE

\* both edges of the pair and their combined value are fractional
Eligible(cmap, e) ==
    /\ Fractional(cmap[e[1]])
    /\ Fractional(cmap[e[2]])
    /\ Fractional(cmap[e[1]] + cmap[e[2]])

====
